---------------------------- MODULE Spec2Model ----------------------------
(***************************************************************************)
(* A model of geo-audit.py: one audit run of one page.                     *)
(*                                                                         *)
(* A parsed page (BeautifulSoup tree) is a sequence of top-level nodes;    *)
(* a container node carries its children in `kids`.  Scores are integers   *)
(* (0..100); the composite score is kept in tenths (0..1000).              *)
(***************************************************************************)
EXTENDS Integers, Sequences, FiniteSets, TLC

(***************************************************************************)
(* Bounds of the model.                                                    *)
(***************************************************************************)
MaxAnchors == 3

MaxHeadings == 3

MaxLdItems == 2

MaxRules == 2

MaxGroups == 2

MaxZigzag == 7

MaxSiblings == 3

(***************************************************************************)
(* Program constants.                                                      *)
(***************************************************************************)
MAX_RETRIES == 2

SampleCap == 20

(***************************************************************************)
(* Generic helpers.                                                        *)
(***************************************************************************)
Min(a, b) == IF a <= b THEN a ELSE b

Max(a, b) == IF a >= b THEN a ELSE b

Range(s) == {s[i] : i \in 1..Len(s)}

RECURSIVE SumSeq(_)
SumSeq(s) == IF s = <<>> THEN 0 ELSE Head(s) + SumSeq(Tail(s))

RECURSIVE Flatten(_)
Flatten(ss) == IF ss = <<>> THEN <<>> ELSE Head(ss) \o Flatten(Tail(ss))

SeqsUpTo(S, n) == UNION {[1..k -> S] : k \in 0..n}

\* s is a contiguous subsequence of t (Python: s in t, for strings)
IsSubstr(s, t) ==
    \E i \in 0..(Len(t) - Len(s)) : \A j \in 1..Len(s) : t[i + j] = s[j]

\* t ends with s (Python: t.endswith(s))
EndsWith(t, s) ==
    /\ Len(s) <= Len(t)
    /\ \A j \in 1..Len(s) : t[Len(t) - Len(s) + j] = s[j]

\* t starts with s (Python: t.startswith(s))
StartsWith(t, s) ==
    /\ Len(s) <= Len(t)
    /\ \A j \in 1..Len(s) : t[j] = s[j]

(***************************************************************************)
(* URLs.  urlparse(href) gives scheme, netloc and path; a netloc is the    *)
(* sequence of its dot-separated labels, so that netloc.endswith('.gov')   *)
(* is a suffix test on labels with at least one label in front; a path is  *)
(* the sequence of its "/" separators and segments, so that startswith is  *)
(* a prefix test on it.                                                    *)
(***************************************************************************)
Url(s, n, p) == [scheme |-> s, netloc |-> n, path |-> p]

NoUrl == Url("", <<>>, <<>>)

BaseUrl == Url("https", <<"site", "com">>, <<"/", "private", "/", "page">>)

GovUrl == Url("https", <<"saude", "gov", "br">>, <<"/", "a">>)

EduUrl == Url("http", <<"mit", "edu">>, <<>>)

BioUrl == Url("https", <<"linkedin", "com">>, <<"/", "in", "/", "autor">>)

OwnUrl == Url("https", <<"site", "com">>, <<"/", "sobre">>)

RelUrl == Url("", <<>>, <<"/", "contato">>)

Hrefs == {GovUrl, EduUrl, BioUrl, OwnUrl, RelUrl}

NetlocEndsWith(netloc, suffix) ==
    Len(netloc) > Len(suffix) /\ EndsWith(netloc, suffix)


(***************************************************************************)
(* The parsed tree.  A node has a tag name ("#text" for a NavigableString), *)
(* an href (NoUrl when absent), what its text holds, its JSON-LD block     *)
(* (for a script of type application/ld+json), its children, and size:     *)
(* the length of its own markup and text in str(soup), children excluded.  *)
(* The text of a node is kept by what the analyses read from it:           *)
(*   q      the stripped text ends in '?' or starts with a question word   *)
(*   words  len(text.split())                                              *)
(*   chars  len(text.strip())                                              *)
(*   about  the text matches (sobre o autor|about the author)              *)
(*   stats  the number of matches of (\d+%)|(\d{2,})                       *)
(*   caps   the words matching [A-Z][a-z..]+, in order                     *)
(*   toks   the tokens of text.lower().split()                             *)
(***************************************************************************)
Tx(q, words, chars, about, stats, caps, toks) ==
    [q |-> q, words |-> words, chars |-> chars, about |-> about,
     stats |-> stats, caps |-> caps, toks |-> toks]

NoText == Tx(FALSE, 0, 0, FALSE, 0, <<>>, {})

NoLd == [kind |-> "none", items |-> <<>>]

Nd(tag, href, text, ld, kids, size) ==
    [tag |-> tag, href |-> href, text |-> text, ld |-> ld, kids |-> kids,
     size |-> size]

Leaf(tag, text, size) == Nd(tag, NoUrl, text, NoLd, <<>>, size)

Anchor(href, text, size) == Nd("a", href, text, NoLd, <<>>, size)

Script(ld, size) == Nd("script", NoUrl, NoText, ld, <<>>, size)

Box(tag, kids, size) == Nd(tag, NoUrl, NoText, NoLd, kids, size)

HeadingTags == {"h1", "h2", "h3", "h4", "h5", "h6"}

Heading(level) == <<"h1", "h2", "h3", "h4", "h5", "h6">>[level]

\* int(h.name[1])
HeadingLevel(tag) == CHOOSE l \in 1..6 : Heading(l) = tag

\* soup.find_all(...): every node of the tree, in document order
AllNodes(soup) ==
    Flatten([i \in 1..Len(soup) |-> <<soup[i]>> \o soup[i].kids])

FindAll(soup, tags) == SelectSeq(AllNodes(soup), LAMBDA n : n.tag \in tags)

(***************************************************************************)
(* Module 2: analyze_structure_and_readability.                            *)
(***************************************************************************)
HIssue(kind, from, to) == [kind |-> kind, from |-> from, to |-> to]

H1Count(levels) == Cardinality({i \in 1..Len(levels) : levels[i] = 1})

H1Issues(levels) ==
    IF H1Count(levels) = 1 THEN <<>>
    ELSE IF H1Count(levels) = 0 THEN <<HIssue("Missing H1", 0, 0)>>
    ELSE <<HIssue("Multiple H1s", 0, 0)>>

\* the loop over headers with last_level: one "Header Jump" per heading more
\* than one level below its predecessor (the first heading is never one)
JumpIssues(levels) ==
    Flatten([i \in 1..Len(levels) |->
        IF i > 1 /\ levels[i] > levels[i - 1] + 1
        THEN <<HIssue("Header Jump", levels[i - 1], levels[i])>>
        ELSE <<>>])

HierarchyIssues(levels) ==
    IF levels = <<>> THEN <<HIssue("No headers found", 0, 0)>>
    ELSE H1Issues(levels) \o JumpIssues(levels)

HasH1Issue(issues) ==
    \E i \in 1..Len(issues) : issues[i].kind \in {"Missing H1", "Multiple H1s"}

\* the hierarchy score without the floor of 40
HierarchyScoreNoFloor(levels) ==
    LET issues == HierarchyIssues(levels)
        start == IF levels # <<>> /\ H1Count(levels) = 1 THEN 20 ELSE 0
    IN  IF issues = <<>> THEN 100
        ELSE IF ~HasH1Issue(issues) THEN 100 - Len(issues) * 10
        ELSE start

HierarchyScore(levels) ==
    LET issues == HierarchyIssues(levels)
        start == IF levels # <<>> /\ H1Count(levels) = 1 THEN 20 ELSE 0
    IN  IF issues = <<>> THEN 100
        ELSE IF ~HasH1Issue(issues) THEN Max(40, 100 - Len(issues) * 10)
        ELSE start

StopTags == {"p", "div", "section"} \cup HeadingTags

\* the sibling scan from position i of sibs: the first later sibling that is
\* a tag of StopTags (0 when the siblings run out)
RECURSIVE NextStop(_, _)
NextStop(sibs, i) ==
    IF i + 1 > Len(sibs) THEN 0
    ELSE IF sibs[i + 1].tag \in StopTags THEN i + 1
    ELSE NextStop(sibs, i + 1)

\* the capsule test with a paragraph of exactly 60 words left out
IsCapsuleBelowSixty(sibs, i) ==
    LET j == NextStop(sibs, i)
    IN  /\ j # 0
        /\ sibs[j].tag = "p"
        /\ 40 <= sibs[j].text.words
        /\ sibs[j].text.words < 60

IsCapsule(sibs, i) ==
    LET j == NextStop(sibs, i)
    IN  /\ j # 0
        /\ sibs[j].tag = "p"
        /\ 40 <= sibs[j].text.words
        /\ sibs[j].text.words <= 60

\* per sibling list: the question headers (h2/h3) and those with a capsule
QuestionIdx(sibs) ==
    {i \in 1..Len(sibs) : sibs[i].tag \in {"h2", "h3"} /\ sibs[i].text.q}

CapsuleIdx(sibs) == {i \in QuestionIdx(sibs) : IsCapsule(sibs, i)}

SiblingLists(soup) == <<soup>> \o [i \in 1..Len(soup) |-> soup[i].kids]

QuestionHeadersCount(soup) ==
    SumSeq([k \in 1..Len(SiblingLists(soup)) |->
        Cardinality(QuestionIdx(SiblingLists(soup)[k]))])

AnswerCapsulesCount(soup) ==
    SumSeq([k \in 1..Len(SiblingLists(soup)) |->
        Cardinality(CapsuleIdx(SiblingLists(soup)[k]))])

\* ' '.join(p.get_text() ...) is non-empty
HasParagraphText(soup) ==
    LET ps == FindAll(soup, {"p"})
    IN  Len(ps) >= 2 \/ (Len(ps) = 1 /\ ps[1].text.words > 0)

ReadingDifficulty(score) ==
    IF score >= 75 THEN "Muito Facil"
    ELSE IF score >= 50 THEN "Facil/Medio"
    ELSE IF score >= 25 THEN "Dificil"
    ELSE "Muito Dificil"

HeadingLevels(soup) ==
    LET hs == FindAll(soup, HeadingTags)
    IN  [i \in 1..Len(hs) |-> HeadingLevel(hs[i].tag)]

\* flesch is textstat's value for the page's paragraph text
AnalyzeStructure(soup, flesch) ==
    [hierarchy_score |-> HierarchyScore(HeadingLevels(soup)),
     hierarchy_issues |-> HierarchyIssues(HeadingLevels(soup)),
     question_headers_count |-> QuestionHeadersCount(soup),
     answer_capsules_count |-> AnswerCapsulesCount(soup),
     flesch_score |-> IF HasParagraphText(soup) THEN flesch ELSE 0,
     reading_difficulty |->
        IF HasParagraphText(soup) THEN ReadingDifficulty(flesch) ELSE "N/A"]

(***************************************************************************)
(* Module 3: analyze_schema_advanced.  A JSON-LD block is what json.loads  *)
(* gives for the script's string: "empty" (no string), "malformed"         *)
(* (JSONDecodeError), "list", "graph" (a dict with '@graph'), "dict" (its  *)
(* one item in items) or "scalar".  An item keeps the keys the code reads: *)
(*   type          '@type' (the first element when it is a list);          *)
(*                 "#nondict" for an item that is no dict                  *)
(*   sameAs        "absent", "empty" or "present"                          *)
(*   author        "absent", "string", "dict_bare" (a dict with neither    *)
(*                 sameAs nor url) or "dict_linked"                        *)
(*   dateModified  whether the key is present                              *)
(***************************************************************************)
LdItem(type, sameAs, author, dateModified) ==
    [type |-> type, sameAs |-> sameAs, author |-> author,
     dateModified |-> dateModified]

LdBlock(kind, items) == [kind |-> kind, items |-> items]

target_schemas ==
    {"Organization", "Person", "FAQPage", "Article", "Product", "BlogPosting",
     "NewsArticle"}

ArticleFamily == {"Article", "BlogPosting", "NewsArticle"}

\* items = data | data['@graph'] | [data] | []
BlockItems(block) ==
    IF block.kind \in {"list", "graph", "dict"} THEN block.items ELSE <<>>

SErr(type, what) == [type |-> type, what |-> what]

\* the issues one item of a target type appends, in the order of the code
\* the issues of an item, an empty sameAs passing for a filled one
ItemErrorsEmptySameAsPasses(item) ==
    (IF item.type \in {"Organization", "Person"} /\ item.sameAs = "absent"
     THEN <<SErr(item.type, "missing sameAs")>> ELSE <<>>)
    \o
    (IF item.type \in ArticleFamily
     THEN (IF item.author = "absent"
           THEN <<SErr(item.type, "missing author")>>
           ELSE IF item.author = "dict_bare"
           THEN <<SErr(item.type, "author missing sameAs or url")>>
           ELSE <<>>)
          \o
          (IF ~item.dateModified
           THEN <<SErr(item.type, "missing dateModified")>> ELSE <<>>)
     ELSE <<>>)

ItemErrors(item) ==
    (IF item.type \in {"Organization", "Person"} /\ item.sameAs # "present"
     THEN <<SErr(item.type, "missing sameAs")>> ELSE <<>>)
    \o
    (IF item.type \in ArticleFamily
     THEN (IF item.author = "absent"
           THEN <<SErr(item.type, "missing author")>>
           ELSE IF item.author = "dict_bare"
           THEN <<SErr(item.type, "author missing sameAs or url")>>
           ELSE <<>>)
          \o
          (IF ~item.dateModified
           THEN <<SErr(item.type, "missing dateModified")>> ELSE <<>>)
     ELSE <<>>)

\* the loop over the items of one block; an item that is no dict raises in
\* item.get, and `except Exception: continue` leaves the rest of the block
RECURSIVE ScanItems(_, _)
ScanItems(items, acc) ==
    IF items = <<>> THEN acc
    ELSE IF Head(items).type = "#nondict" THEN acc
    ELSE IF Head(items).type \in target_schemas
    THEN ScanItems(Tail(items),
            [found |-> Append(acc.found, Head(items).type),
             errors |-> acc.errors \o ItemErrors(Head(items))])
    ELSE ScanItems(Tail(items), acc)

RECURSIVE ScanScripts(_, _)
ScanScripts(blocks, acc) ==
    IF blocks = <<>> THEN acc
    ELSE IF Head(blocks).kind = "empty" THEN ScanScripts(Tail(blocks), acc)
    ELSE IF Head(blocks).kind = "malformed"
    THEN ScanScripts(Tail(blocks),
            [acc EXCEPT !.errors =
                Append(@, SErr("", "Invalid JSON-LD syntax"))])
    ELSE ScanScripts(Tail(blocks), ScanItems(BlockItems(Head(blocks)), acc))

SchemaBaseScore(found) ==
    (IF found # {} THEN 60 ELSE 0)
    + (IF "FAQPage" \in found THEN 10 ELSE 0)
    + (IF "Article" \in found \/ "BlogPosting" \in found THEN 10 ELSE 0)

SchemaScore(found, errors) ==
    Max(0, Min(100, SchemaBaseScore(found) - Len(errors) * 10))

AnalyzeSchemaBlocks(blocks) ==
    LET acc == ScanScripts(blocks, [found |-> <<>>, errors |-> <<>>])
    IN  [found_types |-> Range(acc.found),
         eeat_errors |-> acc.errors,
         score_part |-> SchemaScore(Range(acc.found), acc.errors)]

LdBlocks(soup) ==
    LET ss == SelectSeq(AllNodes(soup),
                        LAMBDA n : n.tag = "script" /\ n.ld.kind # "none")
    IN  [i \in 1..Len(ss) |-> ss[i].ld]

AnalyzeSchema(soup) == AnalyzeSchemaBlocks(LdBlocks(soup))

(***************************************************************************)
(* Module 4: audit_links_and_authority, the part before the probes.        *)
(***************************************************************************)
\* soup.find_all('a', href=True), as the list of hrefs
AnchorHrefs(soup) ==
    LET as == SelectSeq(AllNodes(soup),
                        LAMBDA n : n.tag = "a" /\ n.href # NoUrl)
    IN  [i \in 1..Len(as) |-> as[i].href]

IsExternal(href, base_url) ==
    /\ href.scheme \in {"http", "https"}
    /\ href.netloc # <<>>
    /\ href.netloc # base_url.netloc

DomainTier(netloc) ==
    IF NetlocEndsWith(netloc, <<"gov">>) \/ NetlocEndsWith(netloc, <<"gov", "br">>)
    THEN "gov"
    ELSE IF NetlocEndsWith(netloc, <<"edu">>) \/ NetlocEndsWith(netloc, <<"edu", "br">>)
    THEN "edu"
    ELSE IF NetlocEndsWith(netloc, <<"org">>) \/ NetlocEndsWith(netloc, <<"org", "br">>)
    THEN "org"
    ELSE "generic"

\* external_links: a set, so one entry per URL
ExternalLinks(soup, base_url) ==
    {h \in Range(AnchorHrefs(soup)) : IsExternal(h, base_url)}

\* domain_auth_counts: counted in the loop over the anchors
DomainAuthCounts(soup, base_url) ==
    LET hs == AnchorHrefs(soup)
    IN  [t \in {"gov", "edu", "org", "generic"} |->
            Cardinality({i \in 1..Len(hs) :
                IsExternal(hs[i], base_url) /\ DomainTier(hs[i].netloc) = t})]

\* list(external_links)[:20]: the order of a set is not fixed, so any
\* choice of min(20, n) links
TargetLinkChoices(external_links) ==
    {T \in SUBSET external_links :
        Cardinality(T) = Min(SampleCap, Cardinality(external_links))}

LinkScore(broken_links) ==
    IF broken_links = 0 THEN 100 ELSE Max(0, 100 - broken_links * 10)

(***************************************************************************)
(* Module 6: extract_main_content.                                         *)
(***************************************************************************)
BoilerTags == {"header", "footer", "nav", "aside", "script", "style", "iframe"}

\* for tag in soup([...]): tag.decompose()
Decompose(soup) ==
    LET keep == SelectSeq(soup, LAMBDA n : n.tag \notin BoilerTags)
    IN  [i \in 1..Len(keep) |->
            [keep[i] EXCEPT !.kids =
                SelectSeq(@, LAMBDA k : k.tag \notin BoilerTags)]]

\* len(str(soup))
HtmlLen(soup) ==
    SumSeq([i \in 1..Len(AllNodes(soup)) |-> AllNodes(soup)[i].size])

\* len(tag.get_text(strip=True)), for a top-level node
TextLen(n) ==
    n.text.chars + SumSeq([i \in 1..Len(n.kids) |-> n.kids[i].text.chars])

\* round(x / y) to the nearest integer, ties to even
RoundDiv(x, y) ==
    LET q == x \div y
        r == x % y
    IN  IF 2 * r < y THEN q
        ELSE IF 2 * r > y THEN q + 1
        ELSE IF q % 2 = 0 THEN q ELSE q + 1

\* soup.find('main') or soup.find('article'); <<>> when there is none
MainTag(soup) ==
    LET ms == FindAll(soup, {"main"})
        ars == FindAll(soup, {"article"})
    IN  IF ms # <<>> THEN <<ms[1]>> ELSE IF ars # <<>> THEN <<ars[1]>> ELSE <<>>

\* the result of extract_main_content on the tree left by Decompose; the
\* ratio is kept in hundredths of a percent (round(ratio, 2))
MainContentOf(clean) ==
    LET mt == MainTag(clean)
        body == SelectSeq(clean, LAMBDA n : n.tag # "title")
        mc_len == IF mt # <<>> THEN TextLen(mt[1])
                  ELSE SumSeq([i \in 1..Len(body) |-> TextLen(body[i])])
        html_len == HtmlLen(clean)
    IN  [has_semantic_main |-> mt # <<>>,
         text_to_html_ratio |->
            IF html_len > 0 THEN RoundDiv(mc_len * 10000, html_len) ELSE 0,
         mc_length_chars |-> mc_len]

ExtractMainContent(soup) == MainContentOf(Decompose(soup))

(***************************************************************************)
(* Module 5: analyze_entities (HAS_SPACY is False: the regex fallback).    *)
(* Words are atomic; Lower, the words of at most two letters and the       *)
(* proper-substring relation are tables over the vocabulary of the pages.  *)
(***************************************************************************)
Lower(w) ==
    CASE w = "Maria" -> "maria"
      [] w = "Brasil" -> "brasil"
      [] w = "Para" -> "para"
      [] w = "Eu" -> "eu"
      [] OTHER -> w

ShortWords == {"Eu"}

stop_words ==
    {"Para", "Com", "Em", "De", "Do", "Da", "Um", "Uma", "Os", "As", "Ao",
     "Na", "No", "Se", "Por", "Mas", "Que", "Como", "Quando", "Onde", "Quem",
     "Qual", "Sobre", "Entre", "Ate", "Desde"}

ProperSubstrings == {<<"bras", "brasil">>, <<"mari", "maria">>}

\* t in ent
WordIn(t, ent) == t = ent \/ <<t, ent>> \in ProperSubstrings

TopN == 10

\* re.findall over soup.get_text(...)
CapsMatches(soup) ==
    Flatten([i \in 1..Len(AllNodes(soup)) |-> AllNodes(soup)[i].text.caps])

FilteredWords(soup) ==
    LET ms == SelectSeq(CapsMatches(soup),
                        LAMBDA m : m \notin ShortWords /\ m \notin stop_words)
    IN  [i \in 1..Len(ms) |-> Lower(ms[i])]

\* Counter(filtered).most_common(10): by count, ties in order of first
\* occurrence; a sequence of <<word, count>>
MostCommon(ws, n) ==
    LET words == Range(ws)
        count(w) == Cardinality({i \in 1..Len(ws) : ws[i] = w})
        first(w) == CHOOSE i \in 1..Len(ws) :
                        ws[i] = w /\ \A j \in 1..(i - 1) : ws[j] # w
        rank(w) == 1 + Cardinality({v \in words :
                        \/ count(v) > count(w)
                        \/ count(v) = count(w) /\ first(v) < first(w)})
    IN  [k \in 1..Min(n, Cardinality(words)) |->
            LET w == CHOOSE v \in words : rank(v) = k
            IN  <<w, count(w)>>]

\* intro_topic: the title's string, else the first h1's text; NoText for ""
IntroTopic(soup) ==
    LET ts == FindAll(soup, {"title"})
        h1s == FindAll(soup, {"h1"})
    IN  IF ts # <<>> /\ ts[1].text.chars > 0 THEN ts[1].text
        ELSE IF h1s # <<>> THEN h1s[1].text
        ELSE NoText

AnalyzeEntities(soup, target_topic) ==
    LET top_10 == MostCommon(FilteredWords(soup), TopN)
        is_relevant ==
            \E k \in 1..Len(top_10) :
                \E t \in target_topic.toks : WordIn(t, top_10[k][1])
    IN  [top_entities |-> top_10,
         topic_relevance |->
            IF target_topic.chars = 0 THEN "N/A"
            ELSE IF is_relevant THEN "True" ELSE "False",
         method |-> "Regex Fallback"]

(***************************************************************************)
(* analyze_eeat_basic.                                                     *)
(***************************************************************************)
\* re.compile(r'linkedin|orcid') found in the href
BioHref(href) ==
    \E l \in Range(href.netloc) \cup Range(href.path) :
        l \in {"linkedin", "orcid"}

AnalyzeEeat(soup) ==
    LET ns == AllNodes(soup)
    IN  [has_bio |->
            \/ \E i \in 1..Len(ns) :
                    ns[i].tag = "a" /\ ns[i].href # NoUrl /\ BioHref(ns[i].href)
            \/ \E i \in 1..Len(ns) : ns[i].text.about,
         stats_density |-> SumSeq([i \in 1..Len(ns) |-> ns[i].text.stats])]

(***************************************************************************)
(* calculate_final_score.  Weights in hundredths; the result in tenths.    *)
(***************************************************************************)
w_robots == 15

w_struct == 20

w_schema == 20

w_links == 15

w_mc == 15

w_eeat == 15

WeightSum == w_robots + w_struct + w_schema + w_links + w_mc + w_eeat

\* dict.get(key, default)
Get(d, key, default) == IF key \in DOMAIN d THEN d[key] ELSE default

McScore(mc) ==
    IF mc.has_semantic_main /\ mc.text_to_html_ratio > 1000 THEN 100 ELSE 50

EeatScore(eeat) ==
    IF eeat.has_bio /\ eeat.stats_density > 5 THEN 100 ELSE 50

\* calculate_final_score with a structure weight of 0.25
CalculateFinalScoreHeavyStruct(robots, struct, schema, eeat, links, mc) ==
    RoundDiv(Get(robots, "score_part", 0) * w_robots
             + struct.hierarchy_score * (w_struct + 5)
             + schema.score_part * w_schema + links.score_part * w_links
             + McScore(mc) * w_mc + EeatScore(eeat) * w_eeat, 10)

CalculateFinalScore(robots, struct, schema, eeat, links, mc) ==
    LET s_robots == Get(robots, "score_part", 0)
        s_struct == struct.hierarchy_score
        s_schema == schema.score_part
        s_links == links.score_part
        s_mc == McScore(mc)
        s_eeat == EeatScore(eeat)
        final == s_robots * w_robots + s_struct * w_struct
                 + s_schema * w_schema + s_links * w_links
                 + s_mc * w_mc + s_eeat * w_eeat
    IN  RoundDiv(final, 10)

(***************************************************************************)
(* Module 1: check_robots_txt.  rp.parse gives the User-agent groups of    *)
(* the file in order, each with its agents and its rule lines; rp.can_fetch *)
(* is urllib.robotparser's.  An agent or a bot name is a sequence of       *)
(* tokens, so that `agent in useragent` is a test on token sequences.      *)
(***************************************************************************)
GPTBot == <<"GPT", "Bot">>

ClaudeBot == <<"Claude", "Bot">>

PerplexityBot == <<"Perplexity", "Bot">>

GoogleOther == <<"Google", "Other">>

ApplebotExtended == <<"Apple", "bot", "-", "Extended">>

target_bots == <<GPTBot, ClaudeBot, PerplexityBot, GoogleOther, ApplebotExtended>>

LowerTok(t) ==
    CASE t = "GPT" -> "gpt"
      [] t = "Bot" -> "bot"
      [] t = "Claude" -> "claude"
      [] t = "Perplexity" -> "perplexity"
      [] t = "Google" -> "google"
      [] t = "Other" -> "other"
      [] t = "Apple" -> "apple"
      [] t = "Extended" -> "extended"
      [] OTHER -> t

\* str.lower()
LowerName(a) == [i \in 1..Len(a) |-> LowerTok(a[i])]

Wildcard == <<"*">>

Rule(path, allow) == [path |-> path, allowance |-> allow]

Group(agents, rules) == [useragents |-> agents, rulelines |-> rules]

\* RuleLine.__init__: an empty Disallow allows everything
RuleAllowance(rule) ==
    IF rule.path = <<>> /\ ~rule.allowance THEN TRUE ELSE rule.allowance

\* RuleLine.applies_to
RuleApplies(rule, filename) == StartsWith(filename, rule.path)

\* Entry.applies_to
EntryAppliesTo(entry, useragent) ==
    \E i \in 1..Len(entry.useragents) :
        \/ entry.useragents[i] = Wildcard
        \/ IsSubstr(LowerName(entry.useragents[i]), LowerName(useragent))

\* Entry.allowance: the first rule line that applies decides
EntryAllowance(entry, filename) ==
    LET hits == {i \in 1..Len(entry.rulelines) :
                    RuleApplies(entry.rulelines[i], filename)}
    IN  IF hits = {} THEN TRUE
        ELSE RuleAllowance(entry.rulelines[CHOOSE i \in hits :
                                              \A j \in hits : i <= j])

IsDefaultGroup(g) == \E i \in 1..Len(g.useragents) : g.useragents[i] = Wildcard

\* _add_entry: the groups naming "*" are kept apart, the first of them as
\* default_entry; the others are self.entries, in file order
Entries(groups) == SelectSeq(groups, LAMBDA g : ~IsDefaultGroup(g))

DefaultEntry(groups) ==
    LET ds == SelectSeq(groups, IsDefaultGroup)
    IN  IF ds = <<>> THEN <<>> ELSE <<ds[1]>>

\* can_fetch: the first entry that applies decides, the default entry last
CanFetch(groups, useragent, url) ==
    LET filename == IF url.path = <<>> THEN <<"/">> ELSE url.path
        es == Entries(groups)
        hits == {i \in 1..Len(es) : EntryAppliesTo(es[i], useragent)}
    IN  IF hits # {}
        THEN EntryAllowance(es[CHOOSE i \in hits : \A j \in hits : i <= j],
                            filename)
        ELSE IF DefaultEntry(groups) # <<>>
        THEN EntryAllowance(DefaultEntry(groups)[1], filename)
        ELSE TRUE

RobotsScore(score_impact, total_bots) == (score_impact * 100) \div total_bots

\* the result of check_robots_txt for a robots.txt response
CheckRobotsTxt(response, url) ==
    IF response.kind = "raise"
    THEN [error |-> "Could not fetch robots.txt", score_part |-> 0]
    ELSE IF response.status # 200
    THEN [error |-> "robots.txt returned status", score_part |-> 0]
    ELSE LET results == [b \in Range(target_bots) |->
                            CanFetch(response.groups, b, url)]
             score_impact == Cardinality({b \in Range(target_bots) : results[b]})
         IN  [details |-> results,
              score_part |-> RobotsScore(score_impact, Len(target_bots))]

(***************************************************************************)
(* generate_action_items.  An action item keeps its rule and what the      *)
(* message is formatted from.                                              *)
(***************************************************************************)
Action(rule, n, err, bots, issues) ==
    [rule |-> rule, n |-> n, err |-> err, bots |-> bots, issues |-> issues]

SimpleAction(rule) == Action(rule, 0, SErr("", ""), {}, <<>>)

PageSizeLimit == 2 * 1024 * 1024

\* size_res: is_under_limit
PageSize(content_len) ==
    [size_bytes |-> content_len, is_under_limit |-> content_len <= PageSizeLimit]

RobotsActions(robots) ==
    LET blocked == {b \in DOMAIN robots.details : ~robots.details[b]}
    IN  IF blocked # {}
        THEN <<Action("unblock_bots", 0, SErr("", ""), blocked, <<>>)>>
        ELSE <<>>

StructureActions(st) ==
    (IF st.hierarchy_issues # <<>>
     THEN <<Action("fix_hierarchy", 0, SErr("", ""), {}, st.hierarchy_issues)>>
     ELSE <<>>)
    \o (IF st.question_headers_count = 0
        THEN <<SimpleAction("add_questions")>> ELSE <<>>)
    \o (IF st.flesch_score < 40 THEN <<SimpleAction("simplify_text")>> ELSE <<>>)

SchemaActions(sch) ==
    IF sch.found_types = {} THEN <<SimpleAction("implement_jsonld")>>
    ELSE [i \in 1..Len(sch.eeat_errors) |->
            Action("schema_fix", 0, sch.eeat_errors[i], {}, <<>>)]

ContentActions(mc) ==
    IF mc.text_to_html_ratio < 1000 THEN <<SimpleAction("raise_text_ratio")>>
    ELSE <<>>

\* `not ner['topic_relevance']`: "N/A" is a non-empty string, hence true
EntityActions(ner) ==
    IF ner.topic_relevance = "False" THEN <<SimpleAction("optimise_entities")>>
    ELSE <<>>

LinkActions(lnk) ==
    IF lnk.broken_links_sample > 0
    THEN <<Action("fix_broken_links", lnk.broken_links_sample, SErr("", ""),
                  {}, <<>>)>>
    ELSE <<>>

SizeActions(pz) ==
    IF ~pz.is_under_limit THEN <<SimpleAction("reduce_page_size")>> ELSE <<>>

\* robots['details'] raises KeyError on a result that has no 'details'
GenerateActionItems(d) ==
    IF "details" \notin DOMAIN d.robots
    THEN [raised |-> "KeyError", actions |-> <<>>]
    ELSE [raised |-> "",
          actions |-> RobotsActions(d.robots) \o StructureActions(d.structure)
                      \o SchemaActions(d.schema) \o ContentActions(d.main_content)
                      \o EntityActions(d.entities) \o LinkActions(d.links)
                      \o SizeActions(d.page_size)]

(***************************************************************************)
(* The state of one run of main().                                         *)
(***************************************************************************)
VARIABLES
    pc,           \* where main / analyze_url stands
    robots_txt,   \* what the site answers for /robots.txt
    attempts,     \* the GET requests sent for the page so far
    page,         \* the answer to the page fetch
    doc,          \* the tree as parsed from the fetched content
    soup,         \* the tree the modules are handed
    intro_topic,  \* the topic detected before the modules run
    ext,          \* audit_links_and_authority's locals
    probe,        \* per sampled link: the state of its check_link
    res,          \* the result of each module, NoRes until it has one
    geo_score,    \* the composite score in tenths, -1 until computed
    report,       \* result_data, NoReport until assembled
    actions,      \* what generate_action_items returned, NoActions before
    out,          \* the messages printed so far
    exit_status,  \* the process's exit status, -1 while it runs
    events        \* the calls made so far, in order

vars == <<pc, robots_txt, attempts, page, doc, soup, intro_topic, ext, probe,
          res, geo_score, report, actions, out, exit_status, events>>

Modules ==
    {"robots", "structure", "schema", "eeat", "links", "main_content",
     "entities", "page_size", "authority"}

NoRes == [pending |-> TRUE]

NoReport == [none |-> TRUE]

NoActions == [raised |-> "not called", actions |-> <<>>]

NoPage == [kind |-> "none", status |-> 0, empty |-> TRUE, body |-> <<>>]

NoExt == [external_links |-> {}, target_links |-> {},
          counts |-> [t \in {"gov", "edu", "org", "generic"} |-> 0]]

Available(m) == "pending" \notin DOMAIN res[m]

(***************************************************************************)
(* The environment: the answers the network may give.                      *)
(***************************************************************************)
PageStatuses == {200, 204, 404, 500}

LinkStatuses == {200, 399, 400}

FleschValues == {30, 60}

PageRaise == [kind |-> "raise", status |-> 0, empty |-> TRUE, body |-> <<>>]

PageAnswer(status, body) ==
    [kind |-> "status", status |-> status, empty |-> body = <<>>, body |-> body]

RobotsRaise == [kind |-> "raise", status |-> 0, groups |-> <<>>]

RobotsAnswer(status, groups) ==
    [kind |-> "status", status |-> status, groups |-> groups]

(***************************************************************************)
(* The pages of the pipeline specification: every choice of the nodes of   *)
(* MasterPage, in order.                                                   *)
(***************************************************************************)
MasterPage ==
    << Leaf("h1", Tx(FALSE, 4, 22, FALSE, 0, <<"Maria", "Brasil">>,
                     {"maria", "visitou", "o", "brasil"}), 31),
       Leaf("h3", Tx(TRUE, 3, 10, FALSE, 0, <<>>, {"o", "que", "e"}), 4000),
       Box("main",
           << Leaf("p", Tx(FALSE, 45, 300, FALSE, 6, <<"Para", "Maria", "Eu">>,
                           {"para", "maria", "eu"}), 307),
              Anchor(GovUrl, Tx(FALSE, 1, 5, FALSE, 0, <<>>, {"fonte"}), 40) >>,
           13),
       Box("footer",
           << Anchor(BioUrl, Tx(FALSE, 1, 8, FALSE, 0, <<"Brasil">>, {"brasil"}), 50),
              Leaf("#text", Tx(FALSE, 3, 14, TRUE, 0, <<>>,
                               {"sobre", "o", "autor"}), 14) >>,
           17),
       Script(LdBlock("dict", <<LdItem("Organization", "absent", "absent", FALSE)>>),
              2000) >>

RECURSIVE SubSeqs(_)
SubSeqs(s) ==
    IF s = <<>> THEN {<<>>}
    ELSE LET rest == SubSeqs(Tail(s))
         IN  rest \cup {<<Head(s)>> \o r : r \in rest}

PipelinePages == SubSeqs(MasterPage) \ {<<>>}

PipelineRobots ==
    { RobotsRaise,
      RobotsAnswer(404, <<>>),
      RobotsAnswer(200, <<>>),
      RobotsAnswer(200, <<Group(<<GPTBot>>, <<Rule(<<"/">>, FALSE)>>)>>) }

BlankState ==
    /\ attempts = 0
    /\ page = NoPage
    /\ doc = <<>>
    /\ soup = <<>>
    /\ intro_topic = NoText
    /\ ext = NoExt
    /\ probe = << >>
    /\ res = [m \in Modules |-> NoRes]
    /\ geo_score = -1
    /\ report = NoReport
    /\ actions = NoActions
    /\ out = <<>>
    /\ exit_status = -1
    /\ events = <<>>

Init ==
    /\ pc = "start"
    /\ robots_txt \in PipelineRobots
    /\ BlankState

(***************************************************************************)
(* main and analyze_url, up to the link audit.                             *)
(***************************************************************************)
\* FetchOk without the test of the status
FetchOkAnyStatus(answer) == answer.kind = "status" /\ ~answer.empty

\* get_page_content_async: `response and response.status == 200`, and then
\* analyze_url's `if not content`
FetchOk(answer) ==
    answer.kind = "status" /\ answer.status = 200 /\ ~answer.empty

\* main up to asyncio.run(analyze_url(url)), and analyze_url's first print
MainStart ==
    /\ pc = "start"
    /\ pc' = "fetch"
    /\ out' = out \o <<"init", "analysing">>
    /\ UNCHANGED <<robots_txt, attempts, page, doc, soup, intro_topic, ext,
                   probe, res, geo_score, report, actions, exit_status, events>>

\* content = await get_page_content_async(url): one GET; on success the
\* parse and the topic, on failure the message and `return None`
FetchPageWith(answer) ==
    /\ pc = "fetch"
    /\ attempts' = attempts + 1
    /\ page' = answer
    /\ events' = Append(events, "fetch")
    /\ IF FetchOk(answer)
       THEN /\ doc' = answer.body
            /\ soup' = answer.body
            /\ intro_topic' = IntroTopic(answer.body)
            /\ pc' = "links"
            /\ out' = out
       ELSE /\ out' = Append(out, "error_download")
            /\ pc' = "returned"
            /\ UNCHANGED <<doc, soup, intro_topic>>
    /\ UNCHANGED <<robots_txt, ext, probe, res, geo_score, report, actions,
                   exit_status>>

FetchPage ==
    \E answer \in {PageRaise}
                  \cup {PageAnswer(s, <<>>) : s \in PageStatuses}
                  \cup {PageAnswer(s, d) : s \in {200, 404}, d \in PipelinePages} :
        FetchPageWith(answer)

(***************************************************************************)
(* audit_links_and_authority.                                              *)
(***************************************************************************)
NewProbe ==
    [heads |-> 1, gets |-> 0, head |-> "pending", head_status |-> 0,
     get |-> "none", get_status |-> 0, result |-> "pending"]

\* the anchors are classified, the sample is taken and asyncio.gather
\* starts one check_link per sampled link: each sends its HEAD
StartLinkAudit ==
    /\ pc = "links"
    /\ \E T \in TargetLinkChoices(ExternalLinks(soup, BaseUrl)) :
        /\ ext' = [external_links |-> ExternalLinks(soup, BaseUrl),
                   target_links |-> T,
                   counts |-> DomainAuthCounts(soup, BaseUrl)]
        /\ probe' = [l \in T |-> NewProbe]
    /\ pc' = "probing"
    /\ events' = Append(events, "links")
    /\ UNCHANGED <<robots_txt, attempts, page, doc, soup, intro_topic, res,
                   geo_score, report, actions, out, exit_status>>

ProbeFrame ==
    UNCHANGED <<pc, robots_txt, attempts, page, doc, soup, intro_topic, ext,
                res, geo_score, report, actions, out, exit_status, events>>

\* StatusVerdict with `>` for `>=`
StatusVerdictStrict(status) == IF status > 400 THEN "True" ELSE "False"

\* the verdict of a response: `if resp.status >= 400: return True`, else
\* the fall through to `return False`
StatusVerdict(status) == IF status >= 400 THEN "True" ELSE "False"

\* the HEAD of l is answered with a status
HeadReturns(l, status) ==
    /\ pc = "probing"
    /\ probe[l].head = "pending"
    /\ probe' = [probe EXCEPT ![l].head = "status",
                              ![l].head_status = status,
                              ![l].result = StatusVerdict(status)]
    /\ ProbeFrame

\* the HEAD of l raises (a timeout included): the GET is sent
HeadRaises(l) ==
    /\ pc = "probing"
    /\ probe[l].head = "pending"
    /\ probe' = [probe EXCEPT ![l].head = "raise",
                              ![l].get = "pending",
                              ![l].gets = @ + 1]
    /\ ProbeFrame

GetReturns(l, status) ==
    /\ pc = "probing"
    /\ probe[l].get = "pending"
    /\ probe' = [probe EXCEPT ![l].get = "status",
                              ![l].get_status = status,
                              ![l].result = StatusVerdict(status)]
    /\ ProbeFrame

\* `except: return True`
GetRaises(l) ==
    /\ pc = "probing"
    /\ probe[l].get = "pending"
    /\ probe' = [probe EXCEPT ![l].get = "raise", ![l].result = "True"]
    /\ ProbeFrame

ProbeStep ==
    \E l \in DOMAIN probe :
        \/ \E s \in LinkStatuses : HeadReturns(l, s)
        \/ HeadRaises(l)
        \/ \E s \in LinkStatuses : GetReturns(l, s)
        \/ GetRaises(l)

\* a join that returns with the first check_link to return
AnyProbeDone ==
    DOMAIN probe = {} \/ \E l \in DOMAIN probe : probe[l].result # "pending"

\* asyncio.gather returns when every check_link has returned
AllProbesDone == \A l \in DOMAIN probe : probe[l].result # "pending"

\* sum(results)
BrokenLinks(results) == Cardinality({l \in DOMAIN results : results[l] = "True"})

LinkAuditResult(e, results) ==
    [total_external_links |-> Cardinality(e.external_links),
     broken_links_sample |-> BrokenLinks(results),
     sample_size |-> Cardinality(e.target_links),
     authority_profile |-> e.counts,
     score_part |-> LinkScore(BrokenLinks(results))]

JoinProbes ==
    /\ pc = "probing"
    /\ AllProbesDone
    /\ res' = [res EXCEPT !["links"] =
                  LinkAuditResult(ext, [l \in DOMAIN probe |-> probe[l].result])]
    /\ pc' = "structure"
    /\ UNCHANGED <<robots_txt, attempts, page, doc, soup, intro_topic, ext,
                   probe, geo_score, report, actions, out, exit_status, events>>

(***************************************************************************)
(* analyze_url after the link audit.                                       *)
(***************************************************************************)
\* struct_res = analyze_structure_and_readability(soup)
AnalyzeStructureStep ==
    /\ pc = "structure"
    /\ \E f \in FleschValues :
        res' = [res EXCEPT !["structure"] = AnalyzeStructure(soup, f)]
    /\ pc' = "schema"
    /\ events' = Append(events, "structure")
    /\ UNCHANGED <<robots_txt, attempts, page, doc, soup, intro_topic, ext,
                   probe, geo_score, report, actions, out, exit_status>>

\* schema_res = analyze_schema_advanced(soup)
AnalyzeSchemaStep ==
    /\ pc = "schema"
    /\ res' = [res EXCEPT !["schema"] = AnalyzeSchema(soup)]
    /\ pc' = "main_content"
    /\ events' = Append(events, "schema")
    /\ UNCHANGED <<robots_txt, attempts, page, doc, soup, intro_topic, ext,
                   probe, geo_score, report, actions, out, exit_status>>

\* mc_res = extract_main_content(soup): decompose() works on soup itself
ExtractMainContentStep ==
    /\ pc = "main_content"
    /\ soup' = Decompose(soup)
    /\ res' = [res EXCEPT !["main_content"] = ExtractMainContent(soup)]
    /\ pc' = "entities"
    /\ events' = Append(events, "main_content")
    /\ UNCHANGED <<robots_txt, attempts, page, doc, intro_topic, ext, probe,
                   geo_score, report, actions, out, exit_status>>

\* ner_res = analyze_entities(soup, intro_topic)
AnalyzeEntitiesStep ==
    /\ pc = "entities"
    /\ res' = [res EXCEPT !["entities"] = AnalyzeEntities(soup, intro_topic)]
    /\ pc' = "robots"
    /\ events' = Append(events, "entities")
    /\ UNCHANGED <<robots_txt, attempts, page, doc, soup, intro_topic, ext,
                   probe, geo_score, report, actions, out, exit_status>>

\* robots_res = await task_robots: the coroutine made before the link audit
\* runs here
CheckRobotsStep ==
    /\ pc = "robots"
    /\ res' = [res EXCEPT !["robots"] = CheckRobotsTxt(robots_txt, BaseUrl)]
    /\ pc' = "authority"
    /\ events' = Append(events, "robots")
    /\ UNCHANGED <<robots_txt, attempts, page, doc, soup, intro_topic, ext,
                   probe, geo_score, report, actions, out, exit_status>>

AuthorityAnswers ==
    { [disabled |-> TRUE],
      [indexed_pages |-> 120, top_results_count |-> 10],
      [error |-> "request failed"] }

\* auth_res = await task_auth: check_site_authority_sync in the executor
CheckAuthorityStep ==
    /\ pc = "authority"
    /\ \E a \in AuthorityAnswers : res' = [res EXCEPT !["authority"] = a]
    /\ pc' = "eeat"
    /\ events' = Append(events, "authority")
    /\ UNCHANGED <<robots_txt, attempts, page, doc, soup, intro_topic, ext,
                   probe, geo_score, report, actions, out, exit_status>>

\* eeat_res = analyze_eeat_basic(soup), and size_res
AnalyzeEeatStep ==
    /\ pc = "eeat"
    /\ res' = [res EXCEPT !["eeat"] = AnalyzeEeat(soup),
                          !["page_size"] = PageSize(HtmlLen(doc))]
    /\ pc' = "score"
    /\ events' = Append(events, "eeat")
    /\ UNCHANGED <<robots_txt, attempts, page, doc, soup, intro_topic, ext,
                   probe, geo_score, report, actions, out, exit_status>>

\* the score computed before `await task_robots`
ScoreStepBeforeRobots ==
    /\ pc = "robots"
    /\ LET score == CalculateFinalScore(res["robots"], res["structure"],
                        res["schema"], [has_bio |-> FALSE, stats_density |-> 0],
                        res["links"], res["main_content"])
       IN  /\ geo_score' = score
           /\ report' = [geo_score |-> score, topic_detected |-> intro_topic,
                         details |-> res, gemini_analysis |-> "None"]
    /\ pc' = "gemini"
    /\ events' = Append(events, "score")
    /\ UNCHANGED <<robots_txt, attempts, page, doc, soup, intro_topic, ext,
                   probe, res, actions, out, exit_status>>

\* geo_score = calculate_final_score(...), and result_data
ScoreStep ==
    /\ pc = "score"
    /\ LET score == CalculateFinalScore(res["robots"], res["structure"],
                        res["schema"], res["eeat"], res["links"],
                        res["main_content"])
       IN  /\ geo_score' = score
           /\ report' = [geo_score |-> score, topic_detected |-> intro_topic,
                         details |-> res, gemini_analysis |-> "None"]
    /\ pc' = "gemini"
    /\ events' = Append(events, "score")
    /\ UNCHANGED <<robots_txt, attempts, page, doc, soup, intro_topic, ext,
                   probe, res, actions, out, exit_status>>

\* HAS_GEMINI and GEMINI_API_KEY: analyze_with_gemini in the executor; its
\* failures come back as a string
GeminiStep ==
    /\ pc = "gemini"
    /\ \E text \in {"analysis", "Erro na analise via Gemini"} :
        report' = [report EXCEPT !.gemini_analysis = text]
    /\ out' = Append(out, "gemini_notice")
    /\ pc' = "returned"
    /\ events' = Append(events, "gemini")
    /\ UNCHANGED <<robots_txt, attempts, page, doc, soup, intro_topic, ext,
                   probe, res, geo_score, actions, exit_status>>

\* no Gemini: gemini_analysis stays None
SkipGemini ==
    /\ pc = "gemini"
    /\ pc' = "returned"
    /\ UNCHANGED <<robots_txt, attempts, page, doc, soup, intro_topic, ext,
                   probe, res, geo_score, report, actions, out, exit_status,
                   events>>

(***************************************************************************)
(* main after analyze_url has returned.                                    *)
(***************************************************************************)
\* print_report(data): the sections, then generate_action_items; what it
\* raises is caught by main's `except Exception`, which prints "Erro Fatal"
PrintReport ==
    /\ pc = "returned"
    /\ report # NoReport
    /\ actions' = GenerateActionItems(report.details)
    /\ out' = out \o <<"report_sections">>
              \o (IF actions'.raised = "" THEN <<"action_plan">>
                  ELSE <<"error_fatal">>)
    /\ pc' = "end_main"
    /\ events' = Append(events, "report")
    /\ UNCHANGED <<robots_txt, attempts, page, doc, soup, intro_topic, ext,
                   probe, res, geo_score, report, exit_status>>

\* main returns: nothing calls sys.exit, so the status is 0
ExitStatusOfMain == 0

ExitProcess ==
    /\ \/ pc = "end_main"
       \/ pc = "returned" /\ report = NoReport
    /\ exit_status' = ExitStatusOfMain
    /\ pc' = "done"
    /\ UNCHANGED <<robots_txt, attempts, page, doc, soup, intro_topic, ext,
                   probe, res, geo_score, report, actions, out, events>>

Next ==
    \/ MainStart
    \/ FetchPage
    \/ StartLinkAudit
    \/ ProbeStep
    \/ JoinProbes
    \/ AnalyzeStructureStep
    \/ AnalyzeSchemaStep
    \/ ExtractMainContentStep
    \/ AnalyzeEntitiesStep
    \/ CheckRobotsStep
    \/ CheckAuthorityStep
    \/ AnalyzeEeatStep
    \/ ScoreStep
    \/ GeminiStep
    \/ SkipGemini
    \/ PrintReport
    \/ ExitProcess

Spec == Init /\ [][Next]_vars

(***************************************************************************)
(* The link audit on its own: every page of at most MaxAnchors anchors.    *)
(***************************************************************************)
AnchorPages ==
    {[i \in 1..Len(hs) |-> Anchor(hs[i], NoText, 30)] :
        hs \in SeqsUpTo(Hrefs, MaxAnchors)}

LinkInit ==
    /\ pc = "links"
    /\ robots_txt = RobotsRaise
    /\ \E p \in AnchorPages :
        /\ attempts = 1
        /\ page = PageAnswer(200, p)
        /\ doc = p
        /\ soup = p
    /\ intro_topic = NoText
    /\ ext = NoExt
    /\ probe = << >>
    /\ res = [m \in Modules |-> NoRes]
    /\ geo_score = -1
    /\ report = NoReport
    /\ actions = NoActions
    /\ out = <<"init", "analysing">>
    /\ exit_status = -1
    /\ events = <<"fetch">>

LinkNext == StartLinkAudit \/ ProbeStep \/ JoinProbes

LinkSpec == LinkInit /\ [][LinkNext]_vars

(***************************************************************************)
(* check_robots_txt on its own: every robots.txt of at most MaxGroups      *)
(* groups of one agent and at most MaxRules rule lines.                    *)
(***************************************************************************)
RobotsAgents ==
    {Wildcard, GPTBot, <<"apple", "bot">>, ApplebotExtended}

RobotsPaths == {<<"/">>, <<"/", "private">>, <<"/", "public">>}

RobotsRules == {Rule(p, a) : p \in RobotsPaths, a \in BOOLEAN}

RobotsGroups ==
    {Group(<<a>>, rs) : a \in RobotsAgents, rs \in SeqsUpTo(RobotsRules, MaxRules)}

RobotsFiles == SeqsUpTo(RobotsGroups, MaxGroups)

RobotsInit ==
    /\ pc = "robots"
    /\ robots_txt \in {RobotsRaise, RobotsAnswer(404, <<>>)}
                      \cup {RobotsAnswer(200, f) : f \in RobotsFiles}
    /\ attempts = 1
    /\ page = PageAnswer(200, <<>>)
    /\ doc = <<>>
    /\ soup = <<>>
    /\ intro_topic = NoText
    /\ ext = NoExt
    /\ probe = << >>
    /\ res = [m \in Modules |-> NoRes]
    /\ geo_score = -1
    /\ report = NoReport
    /\ actions = NoActions
    /\ out = <<"init", "analysing">>
    /\ exit_status = -1
    /\ events = <<"fetch">>

RobotsNext == CheckRobotsStep

RobotsSpec == RobotsInit /\ [][RobotsNext]_vars

(***************************************************************************)
(* calculate_final_score on its own: every combination of the results the  *)
(* modules give on the bounded inputs.                                     *)
(***************************************************************************)
HierarchyScores == {HierarchyScore(l) : l \in SeqsUpTo(1..6, MaxHeadings)}

LdItemInputs ==
    {LdItem(t, s, a, d) :
        t \in {"Organization", "FAQPage", "Article", "WebSite"},
        s \in {"absent", "present"},
        a \in {"absent", "dict_bare", "dict_linked"},
        d \in BOOLEAN}

SchemaInputs ==
    UNION {{<<LdBlock("list", is)>>,
            <<LdBlock("malformed", <<>>), LdBlock("list", is)>>} :
           is \in SeqsUpTo(LdItemInputs, MaxLdItems)}

SchemaScores == {AnalyzeSchemaBlocks(bs).score_part : bs \in SchemaInputs}

LinkScores == {LinkScore(k) : k \in 0..SampleCap}

\* the robots.txt that shuts out the first k registered bots
BlockingFile(k) ==
    [i \in 1..k |-> Group(<<target_bots[i]>>, <<Rule(<<"/">>, FALSE)>>)]

RobotsResults ==
    {CheckRobotsTxt(r, BaseUrl) :
        r \in {RobotsRaise, RobotsAnswer(404, <<>>)}
              \cup {RobotsAnswer(200, BlockingFile(k)) : k \in 0..Len(target_bots)}}

ScoreInit ==
    /\ pc = "score"
    /\ robots_txt = RobotsRaise
    /\ attempts = 1
    /\ page = PageAnswer(200, <<>>)
    /\ doc = <<>>
    /\ soup = <<>>
    /\ intro_topic = NoText
    /\ ext = NoExt
    /\ probe = << >>
    /\ \E rb \in RobotsResults, hs \in HierarchyScores, ss \in SchemaScores,
          ls \in LinkScores, main \in BOOLEAN, ratio \in {1000, 1001},
          bio \in BOOLEAN, stats \in {5, 6} :
        res = [m \in Modules |->
                 CASE m = "robots" -> rb
                   [] m = "structure" -> [hierarchy_score |-> hs]
                   [] m = "schema" -> [score_part |-> ss]
                   [] m = "links" -> [score_part |-> ls]
                   [] m = "main_content" ->
                        [has_semantic_main |-> main, text_to_html_ratio |-> ratio]
                   [] m = "eeat" -> [has_bio |-> bio, stats_density |-> stats]
                   [] OTHER -> [disabled |-> TRUE]]
    /\ geo_score = -1
    /\ report = NoReport
    /\ actions = NoActions
    /\ out = <<"init", "analysing">>
    /\ exit_status = -1
    /\ events = <<"fetch">>

ScoreNext == ScoreStep

ScoreSpec == ScoreInit /\ [][ScoreNext]_vars

(***************************************************************************)
(* One module of analyze_url on its own: the state in which the page has   *)
(* been fetched and parsed as p, the site answers `robots` for its         *)
(* robots.txt, and the run stands at `stage`.                              *)
(***************************************************************************)
StageInit(stage, p, robots) ==
    /\ pc = stage
    /\ robots_txt = robots
    /\ attempts = 1
    /\ page = PageAnswer(200, p)
    /\ doc = p
    /\ soup = p
    /\ intro_topic = NoText
    /\ ext = NoExt
    /\ probe = << >>
    /\ res = [m \in Modules |-> NoRes]
    /\ geo_score = -1
    /\ report = NoReport
    /\ actions = NoActions
    /\ out = <<"init", "analysing">>
    /\ exit_status = -1
    /\ events = <<"fetch">>

(***************************************************************************)
(* analyze_structure_and_readability on its own: the pages of at most      *)
(* MaxHeadings headings, the pages of one h1 followed by up to MaxZigzag   *)
(* h2/h4 pairs, and the pages of at most MaxSiblings siblings around a     *)
(* question header, at the top of the tree or inside a section.            *)
(***************************************************************************)
HeadingPages ==
    {[i \in 1..Len(l) |-> Leaf(Heading(l[i]), NoText, 10)] :
        l \in SeqsUpTo(1..6, MaxHeadings)}

ZigzagPages ==
    {[i \in 1..(1 + 2 * k) |->
        Leaf(Heading(IF i = 1 THEN 1 ELSE IF i % 2 = 0 THEN 2 ELSE 4),
             NoText, 10)] : k \in 0..MaxZigzag}

Words(n) == Tx(FALSE, n, n * 6, FALSE, 0, <<>>, {})

SiblingNodes ==
    { Leaf("h2", Tx(TRUE, 3, 12, FALSE, 0, <<>>, {}), 21),
      Leaf("h2", Tx(FALSE, 2, 9, FALSE, 0, <<>>, {}), 18),
      Leaf("h4", Tx(TRUE, 3, 12, FALSE, 0, <<>>, {}), 21),
      Leaf("#text", Words(50), 300),
      Leaf("span", Words(50), 313),
      Box("div", <<>>, 11),
      Leaf("p", Words(39), 241),
      Leaf("p", Words(40), 247),
      Leaf("p", Words(60), 367),
      Leaf("p", Words(61), 373) }

SiblingPages ==
    LET runs == SeqsUpTo(SiblingNodes, MaxSiblings)
    IN  runs \cup {<<Box("section", r, 19)>> : r \in SeqsUpTo(SiblingNodes, 2)}

\* an empty document never reaches the modules
StructPages == (HeadingPages \cup ZigzagPages \cup SiblingPages) \ {<<>>}

StructInit == \E p \in StructPages : StageInit("structure", p, RobotsRaise)

StructNext == AnalyzeStructureStep

StructSpec == StructInit /\ [][StructNext]_vars

(***************************************************************************)
(* analyze_schema_advanced on its own: the pages of one JSON-LD script     *)
(* holding a list of at most MaxLdItems items, alone or beside a script    *)
(* that does not parse, and the pages of two scripts of one item each.     *)
(***************************************************************************)
\* an item that also carries the key reviewedBy
Reviewed(item) == item @@ [reviewedBy |-> TRUE]

SchemaItems ==
    {LdItem(t, s, "absent", FALSE) :
        t \in {"Organization", "Person"}, s \in {"absent", "empty", "present"}}
    \cup {LdItem("Article", "absent", a, d) :
        a \in {"absent", "string", "dict_bare", "dict_linked"}, d \in BOOLEAN}
    \cup {Reviewed(LdItem("Article", "absent", a, d)) :
        a \in {"absent", "dict_linked"}, d \in BOOLEAN}
    \cup {LdItem(t, "absent", "dict_linked", TRUE) :
        t \in {"BlogPosting", "NewsArticle"}}
    \cup {LdItem("NewsArticle", "absent", "absent", FALSE),
          LdItem("FAQPage", "absent", "absent", FALSE),
          LdItem("Product", "absent", "absent", FALSE),
          LdItem("WebSite", "absent", "absent", FALSE),
          LdItem("#nondict", "absent", "absent", FALSE)}

SchemaPages ==
    UNION {{ <<Script(LdBlock("list", is), 200)>>,
             <<Script(LdBlock("malformed", <<>>), 90),
               Script(LdBlock("list", is), 200)>> } :
           is \in SeqsUpTo(SchemaItems, MaxLdItems)}
    \cup {<<Script(LdBlock("dict", <<a>>), 120),
            Script(LdBlock("graph", <<b>>), 140)>> : a, b \in SchemaItems}
    \cup {<<Script(LdBlock("empty", <<>>), 40)>>,
          <<Script(LdBlock("scalar", <<>>), 44)>>,
          <<Script(LdBlock("malformed", <<>>), 90),
            Script(LdBlock("malformed", <<>>), 91)>>}

SchemaInit == \E p \in SchemaPages : StageInit("schema", p, RobotsRaise)

SchemaNext == AnalyzeSchemaStep

SchemaSpec == SchemaInit /\ [][SchemaNext]_vars

(***************************************************************************)
(* A run from the link audit to the printed report, on pages of JSON-LD    *)
(* scripts without anchors, the site answering 200 for its robots.txt.     *)
(***************************************************************************)
ReportItems ==
    { LdItem("Organization", "absent", "absent", FALSE),
      LdItem("Organization", "present", "absent", FALSE),
      LdItem("Article", "absent", "absent", TRUE),
      LdItem("WebSite", "absent", "absent", FALSE) }

ReportPages ==
    UNION {{ <<Script(LdBlock("list", is), 200)>>,
             <<Script(LdBlock("malformed", <<>>), 90),
               Script(LdBlock("list", is), 200)>> } :
           is \in SeqsUpTo(ReportItems, MaxLdItems)}

ReportInit ==
    \E p \in ReportPages, r \in {x \in PipelineRobots : x.status = 200} :
        StageInit("links", p, r)

ReportNext ==
    \/ StartLinkAudit
    \/ JoinProbes
    \/ AnalyzeStructureStep
    \/ AnalyzeSchemaStep
    \/ ExtractMainContentStep
    \/ AnalyzeEntitiesStep
    \/ CheckRobotsStep
    \/ CheckAuthorityStep
    \/ AnalyzeEeatStep
    \/ ScoreStep
    \/ GeminiStep
    \/ SkipGemini
    \/ PrintReport
    \/ ExitProcess

ReportSpec == ReportInit /\ [][ReportNext]_vars

(***************************************************************************)
(* Properties.                                                             *)
(***************************************************************************)
\* the position of the first call e in events, 0 when it was not made
Pos(e) ==
    IF e \in Range(events)
    THEN CHOOSE i \in 1..Len(events) :
            events[i] = e /\ \A j \in 1..(i - 1) : events[j] # e
    ELSE 0

\* b was called only after a
Before(a, b) == Pos(b) # 0 => (Pos(a) # 0 /\ Pos(a) < Pos(b))

Contributing ==
    {"robots", "structure", "schema", "eeat", "links", "main_content"}

ErrorMessages ==
    Cardinality({i \in 1..Len(out) : out[i] \in {"error_download", "error_fatal"}})

\* the page fetch ended in a network error or a status that is not 2xx
FetchFailed ==
    \/ page.kind = "raise"
    \/ page.kind = "status" /\ (page.status < 200 \/ page.status > 299)

\* the run was given up at the page fetch
FatalFetch == page.kind # "none" /\ ~FetchOk(page)

RobotsFetchFailed ==
    robots_txt.kind = "raise" \/ robots_txt.status # 200

(* C1: whatever results the modules give, the weights of                   *)
(* calculate_final_score sum to 1.0 (100 hundredths) and the composite     *)
(* score, once computed, lies in [0,100] (0..1000 tenths).                 *)
C1_CompositeInRange ==
    /\ WeightSum = 100
    /\ geo_score # -1 => (0 <= geo_score /\ geo_score <= 1000)

\* the score has been computed from the highest results the modules give:
\* 100 each, but 80 for the schema module (60 + 10 + 10)
C1_Witness ==
    /\ pc = "gemini"
    /\ geo_score = 960
    /\ res["robots"].score_part = 100
    /\ res["schema"].score_part = 80

(* C2: when the robots.txt fetch fails or answers a status other than 200, *)
(* the robots result is an error result with score_part 0, and the run     *)
(* still ends with a composite score and a recommendation list, no         *)
(* exception having escaped into an error message.                         *)
C2_DegradedRobotsRun ==
    (pc = "done" /\ FetchOk(page) /\ RobotsFetchFailed)
    => /\ "error" \in DOMAIN res["robots"]
       /\ res["robots"].score_part = 0
       /\ geo_score # -1
       /\ actions.raised = ""
       /\ ErrorMessages = 0

(* C3: extract_main_content leaves the shared tree as it was parsed, so    *)
(* the modules that run after it (entities, credibility) give the results  *)
(* they give on the fetched document.                                      *)
C3_SharedTreeUnchanged ==
    Available("main_content")
    => /\ soup = doc
       /\ Available("entities")
            => res["entities"] = AnalyzeEntities(doc, intro_topic)
       /\ Available("eeat") => res["eeat"] = AnalyzeEeat(doc)

(* C4: after a page fetch that ended in a network error or a non-2xx       *)
(* status no analysis module is ever started and no report exists; a       *)
(* report exists only when the page fetch answered with a 2xx status.      *)
C4_FetchFailureAborts ==
    /\ FetchFailed
        => /\ report = NoReport
           /\ \A m \in Modules : ~Available(m)
           /\ events = <<"fetch">>
           /\ DOMAIN probe = {}
           /\ pc \in {"returned", "done"}
    /\ report # NoReport
        => page.kind = "status" /\ page.status >= 200 /\ page.status <= 299

\* a run that ended after the page answered 404 with a body
C4_Witness ==
    pc = "done" /\ page.kind = "status" /\ page.status = 404 /\ ~page.empty

(* C5: the run is given up as a fatal fetch failure only after two failed  *)
(* attempts to fetch the page (one retry).                                 *)
C5_RetriedOnce == FatalFetch => attempts = MAX_RETRIES

(* C6: a fatal page-fetch failure ends the process with a non-zero exit    *)
(* status after exactly one error message.                                 *)
C6_NonZeroExit ==
    (pc = "done" /\ FatalFetch) => (exit_status # 0 /\ ErrorMessages = 1)

\* the verdict the probe protocol gives for what the requests of p returned
OutcomeBroken(p) ==
    \/ p.head = "status" /\ p.head_status >= 400
    \/ /\ p.head = "raise"
       /\ \/ p.get = "raise"
          \/ p.get = "status" /\ p.get_status >= 400

C8_ProbeProtocol ==
    \A l \in DOMAIN probe :
        /\ probe[l].heads = 1
        /\ probe[l].gets <= 1
        /\ probe[l].gets = 1 <=> probe[l].head = "raise"
        /\ probe[l].get # "none" <=> probe[l].head = "raise"
        /\ probe[l].result # "pending"
            => (probe[l].result = "True" <=> OutcomeBroken(probe[l]))
        /\ probe[l].result = "pending"
            <=> (probe[l].head = "pending" \/ probe[l].get = "pending")

\* a link whose HEAD raised and whose GET answered 400 is reported broken,
\* and one whose HEAD answered 399 is not
C8_Witness ==
    \E l, m \in DOMAIN probe :
        /\ probe[l].head = "raise"
        /\ probe[l].get = "status" /\ probe[l].get_status = 400
        /\ probe[l].result = "True"
        /\ probe[m].head = "status" /\ probe[m].head_status = 399
        /\ probe[m].result = "False"

(* C9, as stated: the results of all contributing modules are there before *)
(* the composite score is computed, and the authority lookup and the       *)
(* summary generator are called only after it.                             *)
C9_AuthorityAndSummaryLast ==
    /\ Pos("score") # 0 => \A m \in Contributing : Available(m)
    /\ Before("score", "authority")
    /\ Before("score", "gemini")

(* C9, amended: the results of all contributing modules are there before   *)
(* the composite score is computed, the summary generator is called only   *)
(* after it, and the authority lookup is called before it (after the       *)
(* robots check), its result being no input of the score.                  *)
C9_SummaryLastAuthorityBeforeScore ==
    /\ Pos("score") # 0 => \A m \in Contributing : Available(m)
    /\ Before("score", "gemini")
    /\ Before("authority", "score")
    /\ Before("robots", "authority")
    /\ geo_score # -1
        => geo_score = CalculateFinalScore(res["robots"], res["structure"],
                            res["schema"], res["eeat"], res["links"],
                            res["main_content"])

\* a run in which the authority lookup, the score and the summary happened
C9_Witness ==
    /\ Pos("authority") # 0
    /\ Pos("gemini") # 0
    /\ Pos("authority") < Pos("score")
    /\ Pos("score") < Pos("gemini")

(***************************************************************************)
(* The robots-exclusion precedence C10 states, to compare can_fetch with.  *)
(***************************************************************************)
\* the length of the longest agent of g, other than "*", that names the bot
AgentMatch(g, bot) ==
    LET ls == {Len(g.useragents[i]) : i \in
                {i \in 1..Len(g.useragents) :
                    /\ g.useragents[i] # Wildcard
                    /\ IsSubstr(LowerName(g.useragents[i]), LowerName(bot))}}
    IN  IF ls = {} THEN 0 ELSE CHOOSE n \in ls : \A k \in ls : k <= n

\* the groups whose rules apply to the bot: its most specific groups, the
\* wildcard groups only when no group names it
ApplicableGroups(groups, bot) ==
    LET named == {i \in 1..Len(groups) : AgentMatch(groups[i], bot) > 0}
    IN  IF named # {}
        THEN {i \in named :
                \A j \in named :
                    AgentMatch(groups[j], bot) <= AgentMatch(groups[i], bot)}
        ELSE {i \in 1..Len(groups) : IsDefaultGroup(groups[i])}

\* the verdicts of a set of rules: no matching rule allows; otherwise the
\* longest matching path prefix wins (a tie between an Allow and a Disallow
\* of one length is left open)
RuleVerdicts(rules, filename) ==
    LET hits == {r \in rules : r.path # <<>> /\ StartsWith(filename, r.path)}
    IN  IF hits = {} THEN {TRUE}
        ELSE {r.allowance : r \in
                {r \in hits : \A q \in hits : Len(q.path) <= Len(r.path)}}

\* the verdicts the precedence admits for the bot: those of each of its
\* applicable groups, and of their rules taken together
StandardVerdicts(groups, bot, url) ==
    LET filename == IF url.path = <<>> THEN <<"/">> ELSE url.path
        app == ApplicableGroups(groups, bot)
    IN  IF app = {} THEN {TRUE}
        ELSE RuleVerdicts(UNION {Range(groups[i].rulelines) : i \in app},
                          filename)
             \cup UNION {RuleVerdicts(Range(groups[i].rulelines), filename) :
                            i \in app}

(* C10: for every robots.txt and each of the five registered bots, the bot *)
(* is marked not allowed exactly when the rules that apply to it (its most *)
(* specific User-agent group, the wildcard group only when none names it,  *)
(* the longest matching path prefix winning) disallow the URL; score_part  *)
(* is (number of allowed bots / 5) * 100.                                  *)
C10_StandardPrecedence ==
    (Available("robots") /\ ~RobotsFetchFailed)
    => LET d == res["robots"].details
       IN  /\ \A b \in Range(target_bots) :
                d[b] \in StandardVerdicts(robots_txt.groups, b, BaseUrl)
           /\ res["robots"].score_part * 5
                = 100 * Cardinality({b \in Range(target_bots) : d[b]})


\* the headings that lie more than one level below the heading before them
Jumps(levels) ==
    {i \in 2..Len(levels) : levels[i] > levels[i - 1] + 1}

(* C11: for a page with exactly one H1, hierarchy_score is 100 when no     *)
(* heading is more than one level below the heading before it, and         *)
(* max(40, 100 - 10n) for n > 0 such headings, each recorded as one        *)
(* Header Jump issue.                                                      *)
C11_SingleH1Score ==
    (Available("structure") /\ H1Count(HeadingLevels(doc)) = 1)
    => LET n == Cardinality(Jumps(HeadingLevels(doc)))
           st == res["structure"]
       IN  /\ Len(st.hierarchy_issues) = n
           /\ \A i \in 1..n : st.hierarchy_issues[i].kind = "Header Jump"
           /\ st.hierarchy_score = IF n = 0 THEN 100 ELSE Max(40, 100 - 10 * n)

\* a page of one H1 and seven jumps has been scored at the floor
C11_Witness ==
    /\ Available("structure")
    /\ H1Count(HeadingLevels(doc)) = 1
    /\ Cardinality(Jumps(HeadingLevels(doc))) = 7
    /\ res["structure"].hierarchy_score = 40

(* C12: for a page with no H1 or with more than one H1, the page without   *)
(* any heading included, an issue is recorded and hierarchy_score is below *)
(* the floor of 40.                                                        *)
C12_NoSingleH1BelowFloor ==
    (Available("structure") /\ H1Count(HeadingLevels(doc)) # 1)
    => /\ res["structure"].hierarchy_issues # <<>>
       /\ res["structure"].hierarchy_score < 40

\* a question header (h2/h3) of sibs whose forward scan meets a paragraph
\* before any heading, div or section, the paragraph holding 40..60 words
ReachesCapsule(sibs, i) ==
    \E j \in (i + 1)..Len(sibs) :
        /\ sibs[j].tag = "p"
        /\ sibs[j].text.words \in 40..60
        /\ \A k \in (i + 1)..(j - 1) :
            sibs[k].tag \notin HeadingTags \cup {"p", "div", "section"}

ExpectedCapsules(tree) ==
    LET lists == <<tree>> \o [i \in 1..Len(tree) |-> tree[i].kids]
    IN  SumSeq([k \in 1..Len(lists) |->
            Cardinality({i \in 1..Len(lists[k]) :
                /\ lists[k][i].tag \in {"h2", "h3"}
                /\ lists[k][i].text.q
                /\ ReachesCapsule(lists[k], i)})])

(* C17: answer_capsules_count never exceeds question_headers_count, and it *)
(* counts exactly the H2/H3 question headers whose forward sibling scan    *)
(* reaches a paragraph before any heading, div or section, that paragraph  *)
(* holding between 40 and 60 words.                                        *)
C17_CapsulesOfQuestions ==
    Available("structure")
    => /\ res["structure"].answer_capsules_count
            <= res["structure"].question_headers_count
       /\ res["structure"].answer_capsules_count = ExpectedCapsules(doc)

\* a question header answered by a paragraph of 60 words that follows a
\* text node or a span
C17_Witness ==
    /\ Available("structure")
    /\ res["structure"].question_headers_count = 1
    /\ res["structure"].answer_capsules_count = 1
    /\ \E i \in 1..(Len(doc) - 2) :
        /\ doc[i].tag = "h2" /\ doc[i].text.q
        /\ doc[i + 1].tag \in {"#text", "span"}
        /\ doc[i + 2].tag = "p" /\ doc[i + 2].text.words = 60


\* min(100, max(0, n))
Clamp(n) == IF n < 0 THEN 0 ELSE IF n > 100 THEN 100 ELSE n

(* C13: score_part of the schema module is, clamped to [0,100]: 60 when a  *)
(* target type was found, plus 10 for FAQPage, plus 10 for any of Article, *)
(* BlogPosting, NewsArticle, minus 10 per recorded validation issue.       *)
C13_SchemaScoreFormula ==
    Available("schema")
    => LET sch == res["schema"]
       IN  sch.score_part =
             Clamp((IF sch.found_types # {} THEN 60 ELSE 0)
                   + (IF "FAQPage" \in sch.found_types THEN 10 ELSE 0)
                   + (IF sch.found_types \cap
                            {"Article", "BlogPosting", "NewsArticle"} # {}
                      THEN 10 ELSE 0)
                   - 10 * Len(sch.eeat_errors))

\* the issues the contract lists for one item of a target type
ExpectedIssues(item) ==
    (IF item.type \in {"Organization", "Person"}
        /\ item.sameAs \in {"absent", "empty"}
     THEN <<SErr(item.type, "missing sameAs")>> ELSE <<>>)
    \o (IF item.type \in {"Article", "BlogPosting", "NewsArticle"}
           /\ item.author = "absent"
        THEN <<SErr(item.type, "missing author")>> ELSE <<>>)
    \o (IF item.type \in {"Article", "BlogPosting", "NewsArticle"}
           /\ item.author = "dict_bare"
        THEN <<SErr(item.type, "author missing sameAs or url")>> ELSE <<>>)
    \o (IF item.type \in {"Article", "BlogPosting", "NewsArticle"}
           /\ ~item.dateModified
        THEN <<SErr(item.type, "missing dateModified")>> ELSE <<>>)

\* the items the item loop examines: those of each script that parses, up
\* to the first item that is no JSON object
RECURSIVE UpToNonObject(_)
UpToNonObject(items) ==
    IF items = <<>> \/ Head(items).type = "#nondict" THEN <<>>
    ELSE <<Head(items)>> \o UpToNonObject(Tail(items))

ExaminedItems(tree) ==
    LET scripts == SelectSeq(tree, LAMBDA n : n.tag = "script")
    IN  Flatten([i \in 1..Len(scripts) |->
            IF scripts[i].ld.kind \in {"list", "graph", "dict"}
            THEN SelectSeq(UpToNonObject(scripts[i].ld.items),
                           LAMBDA it : it.type \in target_schemas)
            ELSE <<>>])

C15_NoDuplicateActions ==
    \A i, j \in 1..Len(actions.actions) :
        actions.actions[i] = actions.actions[j] => i = j

(* C16: every validation issue the schema module recorded, the one of a    *)
(* script that does not parse included, has its recommendation in the      *)
(* action list, whether or not a target type was found.                    *)
C16_EveryIssueRecommended ==
    actions.raised = ""
    => \A k \in 1..Len(report.details["schema"].eeat_errors) :
          \E i \in 1..Len(actions.actions) :
              /\ actions.actions[i].rule = "schema_fix"
              /\ actions.actions[i].err = report.details["schema"].eeat_errors[k]

(* C18: the four counts of authority_profile (gov, edu, org, generic) sum  *)
(* to total_external_links, the number of distinct external URLs, also     *)
(* for a page that repeats an external URL.                                *)
C18_TierCountsSumToTotal ==
    Available("links")
    => LET lnk == res["links"]
       IN  lnk.authority_profile["gov"] + lnk.authority_profile["edu"]
           + lnk.authority_profile["org"] + lnk.authority_profile["generic"]
           = lnk.total_external_links

=============================================================================
